---- MODULE Spec2Model ----
(***************************************************************************)
(* ThreadHeaven storefront: the cart ledger (CartManager), its persisted   *)
(* blob in localStorage, the checkout flow in its two variants             *)
(* (processPayPalCheckout and processPayment) and the debounced address    *)
(* search (AddressValidator).  JavaScript runs one handler at a time: each *)
(* action below is one handler, or one continuation of an async handler    *)
(* between two awaits.                                                     *)
(***************************************************************************)
EXTENDS Integers, Sequences, FiniteSets, TLC

VARIABLES
    items,        \* CartManager.items
    storage,      \* localStorage['threadheaven_cart']: NoBlob or a token sequence
    badge,        \* the count shown in .cart-btn by updateCartUI
    quotaErrors,  \* how many times localStorage.setItem has thrown so far
    lastOp,       \* the handler or continuation that ran last
    threw,        \* whether that handler ended by throwing
    addRun,       \* history: the addItem calls made on the initially empty cart
    variant,      \* which CartManager the page loaded: "paypal" or "simulated"
    dbDefined,    \* whether the global db (SupabaseClient) exists on the page
    loading,      \* showCheckoutModal is awaiting loadDependencies
    content,      \* .checkout-content of the overlay: "none", "form" or "success"
    attached,     \* whether the checkout overlay is in the document
    btnDisabled,  \* the disabled flag of the form's submit button
    summary,      \* the order summary rendered into the overlay
    pendingOrder, \* localStorage['threadheaven_pending_order']
    timers,       \* processPayment calls waiting on the simulated payment delay
    inflight,     \* the orders passed to db.createOrder and not yet answered
    submissions,  \* history: how many submit events passed validation
    sinkCalls,    \* history: how many times db.createOrder has been called
    inputText,    \* the value of the address input
    searches,     \* how many search requests AddressValidator.search has set up
    timeout,      \* the request whose 500 ms timer is pending, 0 for none
    timeoutQuery, \* the query the callback of that timer closes over
    fetching,     \* the requests whose fetch is in flight
    returned,     \* history: the requests whose fetch has returned
    suggestions,  \* AddressValidator.suggestions: [req, count]
    container,    \* the dropdown: [visible, req, count]
    spinner,      \* whether the loading spinner is displayed
    validates,    \* whether submit events pass the browser's constraint validation
    emailField,   \* the value of #checkout-email
    emailReadOnly,\* the readOnly flag of #checkout-email
    cityField,    \* the value of #checkout-city
    cityEdited,   \* history: the user has typed into #checkout-city of this form
    lookup,       \* whether the db.getUserProfile() of this form is pending
    itemsKind,    \* what CartManager.items is: "array" (then items holds its
                  \* elements) or "null", "number", "string", "object"
    cartModal,    \* the cart modal: [open, rows], rows the line items it rendered
    answer,       \* what the last call of getTotal or getItemCount returned
    lastCall,     \* history: the last updateQuantity call and the cart it found
    products,     \* ThreadHeavenApp.products
    grid,         \* #products-grid: [kind, ids]
    appInitialized, \* ThreadHeavenApp.initialized
    appPc,        \* where app.init() is: "idle", "querying" or "done"
    sdkLoaded,    \* whether the global supabase (the SDK) exists on the page
    dbClient,     \* SupabaseClient.supabase: "null" or "client"
    dbInitialized,\* SupabaseClient.initialized
    loader,       \* #page-loader: "covering", "transparent", "opaque", "fading", "removed"
    loaderTimer,  \* whether the 200 ms loaderTimeout is pending
    loadFailed,   \* history: why loading the catalog failed, "no" if it did not
    modal,        \* the id of the product the product modal shows, 0 for no modal
    selectedSize  \* selectedSize of that modal

cartVars == <<items, storage, badge, quotaErrors, lastOp, threw, addRun>>

checkoutVars ==
    <<variant, dbDefined, loading, content, attached, btnDisabled, summary,
      pendingOrder, timers, inflight, submissions, sinkCalls>>

addressVars ==
    <<inputText, searches, timeout, timeoutQuery, fetching, returned, suggestions,
      container, spinner>>

formVars == <<validates, emailField, emailReadOnly, cityField, cityEdited, lookup>>

\* the state only the later specifications of this module move
probeVars == <<answer, lastCall>>

catalogVars ==
    <<products, grid, appInitialized, appPc, sdkLoaded, dbClient, dbInitialized,
      loader, loaderTimer, loadFailed, modal, selectedSize>>

pageVars == <<formVars, itemsKind, cartModal, probeVars, catalogVars>>

vars == <<cartVars, checkoutVars, addressVars, pageVars>>

-----------------------------------------------------------------------------
(* Bounds of the model. *)

\* the largest quantity a line item is let to reach, and the largest argument
MaxQty == 2

\* how many times the Persistent Store may refuse a write in one behaviour
MaxQuotaErrors == 1

\* how many submissions of the checkout form one behaviour makes
MaxSubmits == 2

\* how many address searches one behaviour sets up
MaxSearches == 3

\* how many results a search returns at most
MaxResults == 1

\* JavaScript's null, as the size of a line item
NullSize == "<null>"

\* the value localStorage.getItem returns for an absent key
NoBlob == <<[t |-> "absent", v |-> "null"]>>

-----------------------------------------------------------------------------
(* The built-in catalog, and what addItem copies from a product. *)

getStaticProducts ==
    << [id |-> 1, name |-> "Onyx Jacket", material |-> "LEATHER", price |-> 285,
        image_url |-> "assets/pants/pants.png", rotation |-> "rot-1"],
       [id |-> 2, name |-> "Tech Cargo", material |-> "NYLON", price |-> 120,
        image_url |-> "assets/pants/pants.png", rotation |-> "rot-2"],
       [id |-> 3, name |-> "The Overcoat", material |-> "WOOL", price |-> 345,
        image_url |-> "assets/pants/pants.png", rotation |-> "rot-3"],
       [id |-> 4, name |-> "Boxy Tee", material |-> "COTTON", price |-> 55,
        image_url |-> "assets/pants/pants.png", rotation |-> "rot-2"],
       [id |-> 5, name |-> "Combat Boot", material |-> "LEATHER", price |-> 210,
        image_url |-> "assets/pants/pants.png", rotation |-> "rot-1"],
       [id |-> 6, name |-> "Tech Parka", material |-> "FLEECE", price |-> 145,
        image_url |-> "assets/pants/pants.png", rotation |-> "rot-3"] >>

\* the (product id, size) pairs the cart operations are called with
CartKeys == { <<4, NullSize>>, <<4, "M">> }

\* the quantity arguments: zero and a negative one included
QtyArgs == -1 .. MaxQty

\* the index arguments (0-based, as in the code): out of range ones included
IndexArgs == -1 .. 3

\* the object addItem pushes
LineItem(product, quantity, size) ==
    [id |-> product.id, name |-> product.name, price |-> product.price,
     image_url |-> product.image_url, material |-> product.material,
     size |-> size, quantity |-> quantity]

-----------------------------------------------------------------------------
(* JSON.stringify and JSON.parse on the cart, over a sequence of tokens. *)

Punct(c) == [t |-> "punct", v |-> c]

StrTok(s) == [t |-> "string", v |-> s]

NumTok(n) == [t |-> "number", v |-> n]

NullTok == [t |-> "literal", v |-> "null"]

\* a size is null or a string
SizeTok(size) == IF size = NullSize THEN NullTok ELSE StrTok(size)

\* JSON.stringify of one line item: its own properties in insertion order
StringifyItem(it) ==
    << Punct("{"),
       StrTok("id"), Punct(":"), NumTok(it.id), Punct(","),
       StrTok("name"), Punct(":"), StrTok(it.name), Punct(","),
       StrTok("price"), Punct(":"), NumTok(it.price), Punct(","),
       StrTok("image_url"), Punct(":"), StrTok(it.image_url), Punct(","),
       StrTok("material"), Punct(":"), StrTok(it.material), Punct(","),
       StrTok("size"), Punct(":"), SizeTok(it.size), Punct(","),
       StrTok("quantity"), Punct(":"), NumTok(it.quantity),
       Punct("}") >>

RECURSIVE StringifyElems(_)
StringifyElems(its) ==
    IF its = <<>> THEN <<>>
    ELSE IF Len(its) = 1 THEN StringifyItem(its[1])
    ELSE StringifyItem(its[1]) \o <<Punct(",")>> \o StringifyElems(Tail(its))

\* JSON.stringify(this.items)
JSONstringify(its) == <<Punct("[")>> \o StringifyElems(its) \o <<Punct("]")>>

IsPunct(toks, i, c) == i <= Len(toks) /\ toks[i].t = "punct" /\ toks[i].v = c

IsScalar(toks, i) == i <= Len(toks) /\ toks[i].t \in {"string", "number", "literal"}

\* a reader that takes the text of every token as its value
ScalarValueRaw(tok) == tok.v

\* the value of a scalar token: null reads back as null
ScalarValue(tok) == IF tok.t = "literal" THEN NullSize ELSE tok.v

\* the members of an object from position i: [ok, val, next]
RECURSIVE ParseMembers(_, _, _)
ParseMembers(toks, i, acc) ==
    IF i + 2 <= Len(toks) /\ toks[i].t = "string" /\ IsPunct(toks, i + 1, ":")
          /\ IsScalar(toks, i + 2)
    THEN LET acc2 == (toks[i].v :> ScalarValue(toks[i + 2])) @@ acc
         IN  IF IsPunct(toks, i + 3, ",") THEN ParseMembers(toks, i + 4, acc2)
             ELSE IF IsPunct(toks, i + 3, "}")
                  THEN [ok |-> TRUE, val |-> acc2, next |-> i + 4]
                  ELSE [ok |-> FALSE, val |-> acc, next |-> i]
    ELSE [ok |-> FALSE, val |-> acc, next |-> i]

\* an object from position i
ParseObject(toks, i) ==
    IF ~IsPunct(toks, i, "{") THEN [ok |-> FALSE, val |-> <<>>, next |-> i]
    ELSE IF IsPunct(toks, i + 1, "}") THEN [ok |-> TRUE, val |-> <<>>, next |-> i + 2]
    ELSE ParseMembers(toks, i + 1, <<>>)

\* the elements of an array from position i
RECURSIVE ParseElems(_, _, _)
ParseElems(toks, i, acc) ==
    LET o == ParseObject(toks, i)
    IN  IF ~o.ok THEN [ok |-> FALSE, val |-> acc, next |-> i]
        ELSE IF IsPunct(toks, o.next, ",")
             THEN ParseElems(toks, o.next + 1, Append(acc, o.val))
             ELSE IF IsPunct(toks, o.next, "]")
                  THEN [ok |-> TRUE, val |-> Append(acc, o.val), next |-> o.next + 1]
                  ELSE [ok |-> FALSE, val |-> acc, next |-> i]

\* the kind of value a scalar token stands for
ScalarKind(tok) == IF tok.t = "literal" THEN "null" ELSE tok.t

\* JSON.parse(saved): ok is FALSE where JSON.parse throws a SyntaxError; kind
\* is the kind of the value parsed, val its elements when it is an array
JSONparse(toks) ==
    IF Len(toks) = 1 /\ IsScalar(toks, 1)
    THEN [ok |-> TRUE, kind |-> ScalarKind(toks[1]), val |-> <<>>]
    ELSE IF IsPunct(toks, 1, "{")
    THEN [ok |-> ParseObject(toks, 1).ok /\ ParseObject(toks, 1).next = Len(toks) + 1,
          kind |-> "object", val |-> <<>>]
    ELSE IF ~IsPunct(toks, 1, "[") THEN [ok |-> FALSE, kind |-> "array", val |-> <<>>]
    ELSE IF IsPunct(toks, 2, "]")
         THEN [ok |-> Len(toks) = 2, kind |-> "array", val |-> <<>>]
         ELSE LET r == ParseElems(toks, 2, <<>>)
              IN  [ok |-> r.ok /\ r.next = Len(toks) + 1, kind |-> "array", val |-> r.val]

\* if (saved): null (no key) and the empty string are falsy
Falsy(saved) == saved = NoBlob \/ saved = <<>>

\* loadFromStorage: what this.items is after the constructor ran over this
\* blob.  The first CartManager (the paypal variant) reads this.items.length
\* inside the try block, which throws on null and lands in the catch block;
\* the second one (the simulated variant) does not
LoadedKind(saved, v) ==
    IF Falsy(saved) \/ ~JSONparse(saved).ok THEN "array"
    ELSE IF JSONparse(saved).kind = "null" /\ v = "paypal" THEN "array"
    ELSE JSONparse(saved).kind

\* loadFromStorage: the elements of this.items after the constructor ran over
\* this blob (none when this.items is not an array)
loadFromStorage(saved) ==
    IF Falsy(saved) THEN <<>>
    ELSE IF JSONparse(saved).ok THEN JSONparse(saved).val ELSE <<>>

-----------------------------------------------------------------------------
(* The cart ledger. *)

\* Array.prototype.findIndex over (id, size): a 0-based index, or -1
RECURSIVE FindFrom(_, _, _, _)
FindFrom(its, id, size, k) ==
    IF k > Len(its) THEN -1
    ELSE IF its[k].id = id /\ its[k].size = size THEN k - 1
    ELSE FindFrom(its, id, size, k + 1)

FindIndexNever(its, id, size) == -1

\* a findIndex that compares the product id alone
FindIndexById(its, id, size) ==
    IF \E k \in 1 .. Len(its) : its[k].id = id
    THEN (CHOOSE k \in 1 .. Len(its) :
              its[k].id = id /\ \A j \in 1 .. k - 1 : its[j].id # id) - 1
    ELSE -1

FindIndex(its, id, size) == FindFrom(its, id, size, 1)

\* Array.prototype.splice(index, 1): a negative index counts from the end
SpliceStart(its, index) ==
    IF index < 0 THEN (IF Len(its) + index < 0 THEN 0 ELSE Len(its) + index)
    ELSE IF index > Len(its) THEN Len(its) ELSE index

Splice1(its, index) ==
    LET s == SpliceStart(its, index)
    IN  IF s >= Len(its) THEN its
        ELSE SubSeq(its, 1, s) \o SubSeq(its, s + 2, Len(its))

\* Array.prototype.reduce from the left, for getTotal
RECURSIVE ReduceTotal(_, _)
ReduceTotal(its, sum) ==
    IF its = <<>> THEN sum
    ELSE ReduceTotal(Tail(its), sum + (its[1].price * its[1].quantity))

\* Array.prototype.reduce from the left, for getItemCount
RECURSIVE ReduceCount(_, _)
ReduceCount(its, sum) ==
    IF its = <<>> THEN sum ELSE ReduceCount(Tail(its), sum + its[1].quantity)

\* a total that forgets the unit price
getTotalAsCount(its) == ReduceCount(its, 0)

getTotal(its) == ReduceTotal(its, 0)

\* a count of the lines, whatever their quantities
getItemCountAsLength(its) == Len(its)

getItemCount(its) == ReduceCount(its, 0)

\* saveToStorage, on the items the caller has just assigned: setItem either
\* stores the blob or throws (QuotaExceededError), and updateCartUI follows it
saveToStorage(fails) ==
    IF fails
    THEN /\ quotaErrors < MaxQuotaErrors
         /\ quotaErrors' = quotaErrors + 1
         /\ threw' = TRUE
         /\ UNCHANGED <<storage, badge>>
    ELSE /\ storage' = JSONstringify(items')
         /\ badge' = getItemCount(items')
         /\ threw' = FALSE
         /\ UNCHANGED quotaErrors

\* what addItem leaves in this.items
AddedItems(its, product, quantity, size) ==
    LET existingIndex == FindIndex(its, product.id, size)
    IN  IF existingIndex > -1
        THEN [its EXCEPT ![existingIndex + 1].quantity = @ + quantity]
        ELSE Append(its, LineItem(product, quantity, size))

\* the history of addItem calls after this one: st is "same" while every call
\* so far was an addItem with one (id, size) pair on an initially empty cart;
\* calls is 1 after the first of them and 2 after any later one
NextAddRun(id, size, quantity) ==
    IF addRun.st = "fresh"
    THEN [st |-> "same", id |-> id, size |-> size, sum |-> quantity, calls |-> 1]
    ELSE IF addRun.st = "same" /\ addRun.id = id /\ addRun.size = size
         THEN [addRun EXCEPT !.sum = @ + quantity, !.calls = 2]
         ELSE [st |-> "mixed", id |-> 0, size |-> NullSize, sum |-> 0, calls |-> 0]

BrokenRun == [st |-> "mixed", id |-> 0, size |-> NullSize, sum |-> 0, calls |-> 0]

QtyInRange(its) == \A k \in 1 .. Len(its) : its[k].quantity \in -1 .. MaxQty

addItem(product, quantity, size, fails) ==
    /\ QtyInRange(AddedItems(items, product, quantity, size))
    /\ items' = AddedItems(items, product, quantity, size)
    /\ saveToStorage(fails)
    /\ lastOp' = "addItem"
    /\ addRun' = NextAddRun(product.id, size, quantity)

removeItem(index, fails) ==
    /\ items' = Splice1(items, index)
    /\ saveToStorage(fails)
    /\ lastOp' = "removeItem"
    /\ addRun' = BrokenRun

\* an updateQuantity without its quantity <= 0 branch
updateQuantityKeeps(index, quantity, fails) ==
    /\ lastOp' = "updateQuantity"
    /\ addRun' = BrokenRun
    /\ IF index < 0 \/ index >= Len(items)
       THEN /\ ~fails
            /\ threw' = TRUE
            /\ UNCHANGED <<items, storage, badge, quotaErrors>>
       ELSE /\ items' = [items EXCEPT ![index + 1].quantity = quantity]
            /\ saveToStorage(fails)

\* this.items[index] is undefined outside 0 .. length-1: the assignment throws
updateQuantity(index, quantity, fails) ==
    /\ lastOp' = "updateQuantity"
    /\ addRun' = BrokenRun
    /\ IF quantity <= 0
       THEN /\ items' = Splice1(items, index)
            /\ saveToStorage(fails)
       ELSE IF index < 0 \/ index >= Len(items)
            THEN /\ ~fails
                 /\ threw' = TRUE
                 /\ UNCHANGED <<items, storage, badge, quotaErrors>>
            ELSE /\ items' = [items EXCEPT ![index + 1].quantity = quantity]
                 /\ saveToStorage(fails)

\* a clear that forgets to empty the list
ClearedItemsKept == items

\* this.items = []
ClearedItems == <<>>

clear(fails) ==
    /\ items' = ClearedItems
    /\ saveToStorage(fails)
    /\ lastOp' = "clear"
    /\ addRun' = BrokenRun

-----------------------------------------------------------------------------
(* The checkout flow: checkout, showCheckoutModal, processPayPalCheckout    *)
(* (variant "paypal") and processPayment (variant "simulated").  The model  *)
(* follows one checkout overlay: a new checkout starts only when no         *)
(* submission of the previous one is still pending.                         *)

\* the values typed into #checkout-email, as sequences of characters
Emails == { <<>>, <<"a">>, <<"a", "@", "b">> }

\* String.prototype.includes('@')
IncludesAt(email) == \E k \in 1 .. Len(email) : email[k] = "@"

\* !customer.email || !customer.email.includes('@')
EmailRejected(email) == email = <<>> \/ ~IncludesAt(email)

NoPendingOrder == [written |-> FALSE, email |-> <<>>, items |-> <<>>, total |-> 0]

\* the line the order summary renders for one item: its name, its size in
\* brackets when it has one, its quantity and price * quantity
SummaryLine(it) ==
    [name |-> it.name, size |-> IF it.size = NullSize THEN "" ELSE it.size,
     quantity |-> it.quantity, amount |-> it.price * it.quantity]

\* the order summary showCheckoutModal renders from the live cart
RenderSummary(its) ==
    [lines |-> [k \in 1 .. Len(its) |-> SummaryLine(its[k])], total |-> getTotal(its)]

\* a pending order that records the customer and forgets the cart
PendingOrderBare(its, email) ==
    [written |-> TRUE, email |-> email, items |-> <<>>, total |-> 0]

\* the pendingOrder processPayPalCheckout stores before it calls the sink
PendingOrder(its, email) ==
    [written |-> TRUE, email |-> email, items |-> its, total |-> getTotal(its)]

\* the order processPayPalCheckout builds from the live cart
PayPalOrder(its, email) ==
    [status |-> "pending", customer_email |-> email, amount |-> getTotal(its),
     items |-> its]

\* an order that takes its amount from the summary the form shows
SimulatedOrderOfSummary(its, email) ==
    [status |-> "paid", customer_email |-> email, amount |-> summary.total,
     items |-> [k \in 1 .. Len(its) |->
                  [product_id |-> its[k].id, quantity |-> its[k].quantity,
                   price |-> its[k].price, size |-> its[k].size]]]

\* the order and the order items processPayment builds from the live cart
SimulatedOrder(its, email) ==
    [status |-> "paid", customer_email |-> email, amount |-> getTotal(its),
     items |-> [k \in 1 .. Len(its) |->
                  [product_id |-> its[k].id, quantity |-> its[k].quantity,
                   price |-> its[k].price, size |-> its[k].size]]]

\* if (this.items.length === 0) return
CheckoutAllowedAlways(its) == TRUE

CheckoutAllowed(its) == Len(its) # 0

\* btn.disabled = true, before the first await of either submit handler
SubmitDisabledNot == FALSE

SubmitDisabled == TRUE

\* btn.disabled = false, in the catch block of processPayPalCheckout
FailureDisabledStill == TRUE

FailureDisabled == FALSE

\* the spec's names for the states of the orchestrator
CheckoutState ==
    IF loading THEN "Loading"
    ELSE IF content = "none" \/ (~attached /\ timers = 0 /\ inflight = <<>>) THEN "Idle"
    ELSE IF content = "success" THEN "Success"
    ELSE IF btnDisabled THEN "Submitting" ELSE "FormShown"

\* the overlay showCheckoutModal builds and appends
ShowOverlay ==
    /\ content' = "form"
    /\ attached' = TRUE
    /\ btnDisabled' = FALSE
    /\ summary' = RenderSummary(items)

\* checkout(): in the paypal variant showCheckoutModal first awaits
\* loadDependencies, in the simulated one it renders at once
checkout ==
    /\ ~attached /\ ~loading /\ timers = 0 /\ inflight = <<>>
    /\ lastOp' = "checkout"
    /\ threw' = FALSE
    /\ UNCHANGED <<items, storage, badge, quotaErrors, addRun>>
    /\ UNCHANGED <<variant, dbDefined, pendingOrder, timers, inflight, submissions,
                   sinkCalls>>
    /\ IF ~CheckoutAllowed(items)
       THEN UNCHANGED <<loading, content, attached, btnDisabled, summary>>
       ELSE IF variant = "paypal"
            THEN /\ loading' = TRUE
                 /\ UNCHANGED <<content, attached, btnDisabled, summary>>
            ELSE /\ ShowOverlay
                 /\ UNCHANGED loading

\* showCheckoutModal after await this.loadDependencies()
dependenciesLoaded ==
    /\ loading
    /\ loading' = FALSE
    /\ ShowOverlay
    /\ lastOp' = "showCheckoutModal"
    /\ threw' = FALSE
    /\ UNCHANGED <<items, storage, badge, quotaErrors, addRun>>
    /\ UNCHANGED <<variant, dbDefined, pendingOrder, timers, inflight, submissions,
                   sinkCalls>>

\* the close button, a click on the overlay, or CONTINUE SHOPPING: overlay.remove()
closeOverlay ==
    /\ attached
    /\ attached' = FALSE
    /\ lastOp' = "closeOverlay"
    /\ threw' = FALSE
    /\ UNCHANGED <<items, storage, badge, quotaErrors, addRun>>
    /\ UNCHANGED <<variant, dbDefined, loading, content, btnDisabled, summary,
                   pendingOrder, timers, inflight, submissions, sinkCalls>>

\* the browser sends a submit event only through an enabled submit button of a
\* form that is in the document
SubmitPossible == attached /\ content = "form" /\ ~btnDisabled

\* processPayPalCheckout up to await db.createOrder(...)
processPayPalCheckout(email, fails) ==
    /\ variant = "paypal"
    /\ SubmitPossible
    /\ lastOp' = "submit"
    /\ threw' = FALSE
    /\ UNCHANGED <<items, storage, badge, addRun>>
    /\ UNCHANGED <<variant, dbDefined, loading, content, attached, summary, timers>>
    /\ IF EmailRejected(email)
       THEN /\ ~fails
            /\ UNCHANGED <<btnDisabled, pendingOrder, inflight, quotaErrors,
                           submissions, sinkCalls>>
       ELSE /\ submissions < MaxSubmits
            /\ submissions' = submissions + 1
            /\ IF fails
               THEN \* setItem of the pending order throws: the catch block
                    /\ quotaErrors < MaxQuotaErrors
                    /\ quotaErrors' = quotaErrors + 1
                    /\ btnDisabled' = FailureDisabled
                    /\ UNCHANGED <<pendingOrder, inflight, sinkCalls>>
               ELSE /\ pendingOrder' = PendingOrder(items, email)
                    /\ UNCHANGED quotaErrors
                    /\ IF ~dbDefined
                       THEN /\ btnDisabled' = FailureDisabled
                            /\ UNCHANGED <<inflight, sinkCalls>>
                       ELSE /\ btnDisabled' = SubmitDisabled
                            /\ inflight' = Append(inflight, PayPalOrder(items, email))
                            /\ sinkCalls' = sinkCalls + 1

\* processPayPalCheckout after db.createOrder resolved: clear(), then the
\* success screen; an exception of clear() lands in the catch block
paypalOrderAccepted(fails) ==
    /\ variant = "paypal"
    /\ inflight # <<>>
    /\ inflight' = Tail(inflight)
    /\ lastOp' = "sinkAccepted"
    /\ items' = ClearedItems
    /\ addRun' = BrokenRun
    /\ IF fails
       THEN /\ quotaErrors < MaxQuotaErrors
            /\ quotaErrors' = quotaErrors + 1
            /\ btnDisabled' = FailureDisabled
            /\ UNCHANGED <<storage, badge, content>>
       ELSE /\ storage' = JSONstringify(items')
            /\ badge' = getItemCount(items')
            /\ content' = "success"
            /\ UNCHANGED <<quotaErrors, btnDisabled>>
    /\ threw' = FALSE
    /\ UNCHANGED <<variant, dbDefined, loading, attached, summary, pendingOrder, timers,
                   submissions, sinkCalls>>

\* a catch block that sends the order again
paypalOrderRaisedRetries ==
    /\ variant = "paypal"
    /\ inflight # <<>>
    /\ inflight' = Append(Tail(inflight), inflight[1])
    /\ sinkCalls' = sinkCalls + 1
    /\ lastOp' = "sinkRaised"
    /\ threw' = FALSE
    /\ UNCHANGED <<items, storage, badge, quotaErrors, addRun>>
    /\ UNCHANGED <<variant, dbDefined, loading, content, attached, btnDisabled, summary,
                   pendingOrder, timers, submissions>>

\* processPayPalCheckout after db.createOrder threw: the catch block
paypalOrderRaised ==
    /\ variant = "paypal"
    /\ inflight # <<>>
    /\ inflight' = Tail(inflight)
    /\ lastOp' = "sinkRaised"
    /\ btnDisabled' = FailureDisabled
    /\ threw' = FALSE
    /\ UNCHANGED <<items, storage, badge, quotaErrors, addRun>>
    /\ UNCHANGED <<variant, dbDefined, loading, content, attached, summary,
                   pendingOrder, timers, submissions, sinkCalls>>

\* processPayment up to the await of the simulated payment delay
processPayment ==
    /\ variant = "simulated"
    /\ SubmitPossible
    /\ submissions < MaxSubmits
    /\ submissions' = submissions + 1
    /\ btnDisabled' = SubmitDisabled
    /\ timers' = timers + 1
    /\ lastOp' = "submit"
    /\ threw' = FALSE
    /\ UNCHANGED <<items, storage, badge, quotaErrors, addRun>>
    /\ UNCHANGED <<variant, dbDefined, loading, content, attached, summary,
                   pendingOrder, inflight, sinkCalls>>

\* a tail that shows the success screen and keeps the cart
ShowSuccessAndKeep(fails) ==
    /\ ~fails
    /\ content' = "success"
    /\ threw' = FALSE
    /\ addRun' = BrokenRun
    /\ UNCHANGED <<items, storage, badge, quotaErrors>>

\* the tail of processPayment: the success screen, then clear()
ShowSuccessAndClear(fails) ==
    /\ content' = "success"
    /\ items' = ClearedItems
    /\ saveToStorage(fails)
    /\ addRun' = BrokenRun

\* processPayment after the delay: the order is built from the live cart; with
\* no db the call throws at once, is caught, and the handler runs to its end
paymentDelayOver(email, fails) ==
    /\ variant = "simulated"
    /\ timers > 0
    /\ timers' = timers - 1
    /\ lastOp' = "paymentDelayOver"
    /\ UNCHANGED <<variant, dbDefined, loading, attached, btnDisabled, summary,
                   pendingOrder, submissions>>
    /\ IF dbDefined
       THEN /\ ~fails
            /\ inflight' = Append(inflight, SimulatedOrder(items, email))
            /\ sinkCalls' = sinkCalls + 1
            /\ threw' = FALSE
            /\ UNCHANGED <<items, storage, badge, quotaErrors, addRun, content>>
       ELSE /\ ShowSuccessAndClear(fails)
            /\ UNCHANGED <<inflight, sinkCalls>>

\* processPayment after db.createOrder resolved or threw: both go on
simulatedOrderAnswered(accepted, fails) ==
    /\ variant = "simulated"
    /\ inflight # <<>>
    /\ inflight' = Tail(inflight)
    /\ lastOp' = IF accepted THEN "sinkAccepted" ELSE "sinkRaised"
    /\ ShowSuccessAndClear(fails)
    /\ UNCHANGED <<variant, dbDefined, loading, attached, btnDisabled, summary,
                   pendingOrder, timers, submissions, sinkCalls>>

-----------------------------------------------------------------------------
(* The cart modal: renderCartModal writes each line's index and quantity    *)
(* into the onclick attributes of its buttons.                              *)

\* renderCartModal(): one row per line item, in order; row k carries index k-1
RenderCartModal(its) == [open |-> TRUE, rows |-> its]

\* the call a click has made: the button, the line item its row displays, the
\* index baked into it, and the cart and the blob it found
ClickCall(button, row) ==
    [op |-> button, index |-> row - 1, shown |-> cartModal.rows[row],
     before |-> items, blob |-> storage]

\* the '+' button of a row: cart.updateQuantity(index, quantity + 1), with the
\* index and the quantity of the time the modal was rendered
plusClick(row, fails) ==
    /\ cartModal.open
    /\ row \in 1 .. Len(cartModal.rows)
    /\ cartModal.rows[row].quantity + 1 <= MaxQty
    /\ updateQuantity(row - 1, cartModal.rows[row].quantity + 1, fails)
    /\ lastCall' = ClickCall("plus", row)
    /\ UNCHANGED cartModal

\* the '-' button of a row: cart.updateQuantity(index, quantity - 1)
minusClick(row, fails) ==
    /\ cartModal.open
    /\ row \in 1 .. Len(cartModal.rows)
    /\ updateQuantity(row - 1, cartModal.rows[row].quantity - 1, fails)
    /\ lastCall' = ClickCall("minus", row)
    /\ UNCHANGED cartModal

\* the trash button of a row: cart.removeItem(index); cart.renderCartModal();
\* an exception of removeItem ends the handler before the modal is rendered
trashClick(row, fails) ==
    /\ cartModal.open
    /\ row \in 1 .. Len(cartModal.rows)
    /\ removeItem(row - 1, fails)
    /\ lastCall' = ClickCall("remove", row)
    /\ cartModal' = IF fails THEN cartModal ELSE RenderCartModal(items')

-----------------------------------------------------------------------------
(* The fields of the checkout form: what the user types, and the profile    *)
(* pre-fill of the paypal variant's showCheckoutModal.                      *)

\* the texts the user types into #checkout-city
Cities == { "", "Oslo" }

\* what db.getUserProfile() resolves with: null (nobody logged in), the
\* defaults built from the user's metadata, or the user's row of the users table
Profiles ==
    { [found |-> FALSE, email |-> <<>>, city |-> ""],
      [found |-> TRUE, email |-> <<"a", "@", "b">>, city |-> ""],
      [found |-> TRUE, email |-> <<"a", "@", "b">>, city |-> "Paris"] }

\* <input type="email" required>: the browser takes a value with a local
\* part, an '@' and a domain
BrowserValid(email) == \E k \in 2 .. Len(email) - 1 : email[k] = "@"

\* a click on the submit button dispatches the submit event only when the
\* form passes constraint validation (a readonly field is barred from it);
\* an event dispatched by a script, or a direct call of the handler, does not
FormSubmittable == validates => (emailReadOnly \/ BrowserValid(emailField))

\* the form of a new overlay: empty fields, and in the paypal variant the
\* profile lookup when db exists
NewForm ==
    /\ emailField' = <<>>
    /\ emailReadOnly' = FALSE
    /\ cityField' = ""
    /\ cityEdited' = FALSE
    /\ lookup' = (variant = "paypal" /\ dbDefined)
    /\ UNCHANGED validates

\* the user changes the text of #checkout-email
typeEmail(email) ==
    /\ attached /\ content = "form" /\ ~emailReadOnly
    /\ email # emailField
    /\ emailField' = email
    /\ UNCHANGED <<validates, emailReadOnly, cityField, cityEdited, lookup>>

\* the user changes the text of #checkout-city
typeCity(city) ==
    /\ attached /\ content = "form"
    /\ city # cityField
    /\ cityField' = city
    /\ cityEdited' = TRUE
    /\ UNCHANGED <<validates, emailField, emailReadOnly, lookup>>

\* the then-callback of db.getUserProfile(): the inputs are looked up in the
\* overlay, which no longer has them once the success screen replaced the form
profileArrived(profile) ==
    /\ lookup
    /\ lookup' = FALSE
    /\ IF content = "form" /\ profile.found /\ profile.email # <<>>
       THEN /\ emailField' = profile.email
            /\ emailReadOnly' = TRUE
       ELSE UNCHANGED <<emailField, emailReadOnly>>
    /\ IF content = "form" /\ profile.found /\ profile.city # ""
       THEN cityField' = profile.city
       ELSE UNCHANGED cityField
    /\ UNCHANGED <<validates, cityEdited>>

\* db.getUserProfile() rejects: .catch(console.error)
profileFailed ==
    /\ lookup
    /\ lookup' = FALSE
    /\ UNCHANGED <<validates, emailField, emailReadOnly, cityField, cityEdited>>

-----------------------------------------------------------------------------
(* The catalog: ThreadHeavenApp.init, loadProducts and renderProducts over  *)
(* SupabaseClient.init and getProducts.  The continuations that follow one  *)
(* another as microtasks, with no timer or network event between them, are  *)
(* one action.                                                              *)

\* a product row of the remote catalog
RemoteProduct(id, name, price) ==
    [id |-> id, name |-> name, material |-> "DENIM", price |-> price,
     image_url |-> "https://cdn/p.png", rotation |-> "rot-1"]

\* the rows the products table may answer with
RemoteCatalogs ==
    { <<>>,
      <<RemoteProduct(7, "Selvedge Jean", 90)>>,
      <<RemoteProduct(8, "Chore Coat", 160), RemoteProduct(7, "Selvedge Jean", 90)>> }

\* how the query may end: an error in the answer, rows, or neither
RemoteOutcomes ==
    { [kind |-> "error", data |-> <<>>], [kind |-> "nothing", data |-> <<>>] }
    \cup { [kind |-> "rows", data |-> rows] : rows \in RemoteCatalogs }

\* renderProducts: one card per product, in the order of this.products
RenderProducts(prods) == [kind |-> "products", ids |-> [k \in 1 .. Len(prods) |-> prods[k].id]]

\* showSkeletonLoading: six skeleton cards
Skeleton == [kind |-> "skeleton", ids |-> <<>>]

\* the end of init(): clearTimeout, then the loader is removed at once when
\* less than 200 ms have passed, and faded out otherwise
EndOfInit(fast) ==
    /\ loaderTimer' = FALSE
    /\ loader' = IF fast THEN "removed" ELSE "fading"
    /\ appPc' = "done"

\* a catch block that leaves the product list empty
FallBackEmpty(why) ==
    /\ products' = <<>>
    /\ grid' = RenderProducts(<<>>)
    /\ appInitialized' = TRUE
    /\ loadFailed' = why

\* loadProducts' catch block: the built-in catalog, then init() renders it
FallBack(why) ==
    /\ products' = getStaticProducts
    /\ grid' = RenderProducts(getStaticProducts)
    /\ appInitialized' = TRUE
    /\ loadFailed' = why

\* SupabaseClient.init(): without the SDK it returns with this.supabase null;
\* createClient may throw, which init catches
dbInit(clientThrows) ==
    IF dbInitialized \/ ~sdkLoaded \/ clientThrows
    THEN UNCHANGED <<dbClient, dbInitialized>>
    ELSE dbClient' = "client" /\ dbInitialized' = TRUE

\* app.init() at DOMContentLoaded, up to the first network wait.  Without db
\* the reference throws inside loadProducts; with db but no client,
\* this.supabase.from throws: both end in the catch block of loadProducts and
\* init() runs to its end.  With a client the query is sent.
appInit(clientThrows) ==
    /\ appPc = "idle"
    /\ ~appInitialized
    /\ IF ~dbDefined
       THEN /\ FallBack("no db")
            /\ EndOfInit(TRUE)
            /\ UNCHANGED <<dbClient, dbInitialized>>
       ELSE /\ dbInit(clientThrows)
            /\ IF dbClient' = "null"
               THEN /\ FallBack(IF sdkLoaded THEN "no client" ELSE "no sdk")
                    /\ EndOfInit(TRUE)
               ELSE /\ grid' = Skeleton
                    /\ loader' = "transparent"
                    /\ loaderTimer' = TRUE
                    /\ appPc' = "querying"
                    /\ UNCHANGED <<products, appInitialized, loadFailed>>
    /\ UNCHANGED <<sdkLoaded, modal, selectedSize>>

\* the loaderTimeout callback
loaderTimeout ==
    /\ loaderTimer
    /\ loaderTimer' = FALSE
    /\ loader' = "opaque"
    /\ UNCHANGED <<products, grid, appInitialized, appPc, sdkLoaded, dbClient,
                   dbInitialized, loadFailed, modal, selectedSize>>

\* the query answers.  An error is thrown by getProducts and caught by
\* loadProducts; rows become this.products; with neither, this.products is
\* null, renderProducts throws and the catch block of init() falls back.
\* fast: less than 200 ms have passed, which the timer still pending allows
productsAnswered(outcome, fast) ==
    /\ appPc = "querying"
    /\ fast => loaderTimer
    /\ EndOfInit(fast)
    /\ IF outcome.kind = "rows"
       THEN /\ products' = outcome.data
            /\ grid' = RenderProducts(outcome.data)
            /\ appInitialized' = TRUE
            /\ UNCHANGED loadFailed
       ELSE IF outcome.kind = "error"
            THEN FallBack("remote error")
            ELSE /\ products' = getStaticProducts
                 /\ grid' = RenderProducts(getStaticProducts)
                 /\ loadFailed' = "no rows"
                 /\ UNCHANGED appInitialized
    /\ UNCHANGED <<sdkLoaded, dbClient, dbInitialized, modal, selectedSize>>

\* hidePageLoader's 500 ms timer
loaderFaded ==
    /\ loader = "fading"
    /\ loader' = "removed"
    /\ UNCHANGED <<products, grid, appInitialized, appPc, sdkLoaded, dbClient,
                   dbInitialized, loaderTimer, loadFailed, modal, selectedSize>>

\* a product id as a JavaScript value: the built-in catalog numbers its
\* products, the products table keys its rows by UUID strings
IdValue(id) == [type |-> IF id \in 1 .. 6 THEN "number" ELSE "string", text |-> id]

\* '${product.id}' in the card's onclick: the id as a string
IdText(id) == [type |-> "string", text |-> id]

\* this.products.find(p => p.id === productId): an index, 0 for undefined
FindProduct(prods, productId) ==
    IF \E k \in 1 .. Len(prods) : IdValue(prods[k].id) = productId
    THEN CHOOSE k \in 1 .. Len(prods) :
             /\ IdValue(prods[k].id) = productId
             /\ \A j \in 1 .. k - 1 : IdValue(prods[j].id) # productId
    ELSE 0

\* a click on the card-th card: showProductModal with the id the card carries
showProductModal(card) ==
    /\ grid.kind = "products"
    /\ card \in 1 .. Len(grid.ids)
    /\ IF FindProduct(products, IdText(grid.ids[card])) = 0
       THEN UNCHANGED <<modal, selectedSize>>
       ELSE /\ modal' = products[FindProduct(products, IdText(grid.ids[card]))].id
            /\ selectedSize' = NullSize
    /\ UNCHANGED <<products, grid, appInitialized, appPc, sdkLoaded, dbClient,
                   dbInitialized, loader, loaderTimer, loadFailed>>

\* a click on a size button of the product modal
selectSize(size) ==
    /\ modal # 0
    /\ selectedSize' = size
    /\ UNCHANGED <<products, grid, appInitialized, appPc, sdkLoaded, dbClient,
                   dbInitialized, loader, loaderTimer, loadFailed, modal>>

\* the close button of the product modal, a click on its overlay, or the
\* overlay.remove() that follows cart.addItem
closeProductModal ==
    /\ modal # 0
    /\ modal' = 0
    /\ UNCHANGED <<products, grid, appInitialized, appPc, sdkLoaded, dbClient,
                   dbInitialized, loader, loaderTimer, loadFailed, selectedSize>>

\* the product the modal was opened for
ModalProduct == products[CHOOSE k \in 1 .. Len(products) : products[k].id = modal]

-----------------------------------------------------------------------------
(* The address search: AddressValidator.search and the input handler that   *)
(* attach() installs.  A request is numbered by the order in which search   *)
(* set up its timer.                                                        *)

\* the texts typed into the address input, as sequences of characters
Queries == { <<"a", "b">>, <<"a", "b", "c">>, <<"a", "b", "c", "d">> }

\* query.length < 3
TooShort(query) == Len(query) < 3

NoResults == [req |-> 0, count |-> 0]

Hidden == [visible |-> FALSE, req |-> 0, count |-> 0]

AddressInit ==
    /\ inputText = <<>>
    /\ searches = 0
    /\ timeout = 0
    /\ timeoutQuery = <<>>
    /\ fetching = {}
    /\ returned = {}
    /\ suggestions = NoResults
    /\ container = Hidden
    /\ spinner = FALSE

\* container.style.display = 'none': the list keeps its innerHTML
HideContainer == [container EXCEPT !.visible = FALSE]

\* an input handler whose search leaves a pending timer in place
onInputKeepsTimer(query) ==
    /\ query # inputText
    /\ inputText' = query
    /\ IF TooShort(query)
       THEN /\ container' = HideContainer
            /\ UNCHANGED <<searches, timeout, timeoutQuery, spinner>>
       ELSE /\ searches < MaxSearches
            /\ searches' = searches + 1
            /\ timeout' = IF timeout # 0 THEN timeout ELSE searches + 1
            /\ timeoutQuery' = IF timeout # 0 THEN timeoutQuery ELSE query
            /\ spinner' = TRUE
            /\ UNCHANGED container
    /\ UNCHANGED <<fetching, returned, suggestions>>

\* the input handler up to await this.search(query, country), run when the
\* text of the input changes: a short text
\* hides the list and returns; otherwise search clears the pending timer,
\* shows the spinner and sets a new timer
onInput(query) ==
    /\ query # inputText
    /\ inputText' = query
    /\ IF TooShort(query)
       THEN /\ container' = HideContainer
            /\ UNCHANGED <<searches, timeout, timeoutQuery, spinner>>
       ELSE /\ searches < MaxSearches
            /\ searches' = searches + 1
            /\ timeout' = searches + 1
            /\ timeoutQuery' = query
            /\ spinner' = TRUE
            /\ UNCHANGED container
    /\ UNCHANGED <<fetching, returned, suggestions>>

\* the timer callback up to await fetch(url)
onTimeout ==
    /\ timeout # 0
    /\ fetching' = fetching \cup {timeout}
    /\ timeout' = 0
    /\ timeoutQuery' = <<>>
    /\ UNCHANGED <<inputText, searches, returned, suggestions, container, spinner>>

\* what the input handler does with the results search resolved with
ShowResults(req, count) ==
    IF count > 0 THEN [visible |-> TRUE, req |-> req, count |-> count] ELSE HideContainer

\* the fetch of request req returns count results: suggestions are stored,
\* the promise resolves, the spinner is hidden and the input handler that
\* awaited this request renders the results
onFetchReturned(req, count) ==
    /\ req \in fetching
    /\ fetching' = fetching \ {req}
    /\ returned' = returned \cup {req}
    /\ suggestions' = [req |-> req, count |-> count]
    /\ spinner' = FALSE
    /\ container' = ShowResults(req, count)
    /\ UNCHANGED <<inputText, searches, timeout, timeoutQuery>>

\* the fetch of request req fails: the promise resolves with [] and the
\* input handler hides the list
onFetchFailed(req) ==
    /\ req \in fetching
    /\ fetching' = fetching \ {req}
    /\ returned' = returned \cup {req}
    /\ spinner' = FALSE
    /\ container' = ShowResults(req, 0)
    /\ UNCHANGED <<inputText, searches, timeout, timeoutQuery, suggestions>>

\* a click on a suggestion, or a click outside the input and the list
onClickAway ==
    /\ container.visible
    /\ container' = HideContainer
    /\ UNCHANGED <<inputText, searches, timeout, timeoutQuery, fetching, returned,
                   suggestions, spinner>>

-----------------------------------------------------------------------------
(* The cart ledger alone. *)

ProductOf(id) == getStaticProducts[id]

\* the blobs a page load may find: none, or one an earlier page wrote
InitialBlobs == { NoBlob, JSONstringify(<<LineItem(ProductOf(2), 1, "M")>>) }

CartInit ==
    /\ storage \in InitialBlobs
    /\ items = loadFromStorage(storage)
    /\ badge = getItemCount(items)
    /\ quotaErrors = 0
    /\ lastOp = "constructor"
    /\ threw = FALSE
    /\ addRun = IF items = <<>>
                THEN [st |-> "fresh", id |-> 0, size |-> NullSize, sum |-> 0, calls |-> 0]
                ELSE BrokenRun

\* no checkout has been started
CheckoutInit ==
    /\ dbDefined \in BOOLEAN
    /\ loading = FALSE
    /\ content = "none"
    /\ attached = FALSE
    /\ btnDisabled = FALSE
    /\ summary = [lines |-> <<>>, total |-> 0]
    /\ pendingOrder = NoPendingOrder
    /\ timers = 0
    /\ inflight = <<>>
    /\ submissions = 0
    /\ sinkCalls = 0

\* no checkout form exists yet
FormInit ==
    /\ emailField = <<>>
    /\ emailReadOnly = FALSE
    /\ cityField = ""
    /\ cityEdited = FALSE
    /\ lookup = FALSE

\* no query has been made, no updateQuantity call recorded
NoAnswer == [op |-> "none", value |-> 0]

NoCall == [op |-> "none", index |-> 0, quantity |-> 0, before |-> <<>>, blob |-> <<>>]

\* no cart modal has been rendered
NoCartModal == [open |-> FALSE, rows |-> <<>>]

ProbeInit == answer = NoAnswer /\ lastCall = NoCall /\ cartModal = NoCartModal

\* new ThreadHeavenApp() and new SupabaseClient(), before DOMContentLoaded
CatalogInit ==
    /\ products = <<>>
    /\ grid = [kind |-> "blank", ids |-> <<>>]
    /\ appInitialized = FALSE
    /\ appPc = "idle"
    /\ sdkLoaded \in BOOLEAN
    /\ dbClient = "null"
    /\ dbInitialized = FALSE
    /\ loader = "covering"
    /\ loaderTimer = FALSE
    /\ loadFailed = "no"
    /\ modal = 0
    /\ selectedSize = NullSize

\* a page whose catalog is of no concern
CatalogIdle == CatalogInit /\ sdkLoaded = TRUE

PageInit == FormInit /\ validates = TRUE /\ ProbeInit /\ CatalogIdle

\* this.items after the constructor
LoadInit == itemsKind = LoadedKind(storage, variant)

Init ==
    /\ CartInit /\ CheckoutInit /\ AddressInit /\ PageInit
    /\ variant = "paypal" /\ dbDefined = TRUE
    /\ LoadInit

AddItemCall ==
    \E key \in CartKeys, quantity \in QtyArgs, fails \in BOOLEAN :
        addItem(ProductOf(key[1]), quantity, key[2], fails) /\ UNCHANGED <<checkoutVars, addressVars, pageVars>>

RemoveItemCall ==
    \E index \in IndexArgs, fails \in BOOLEAN :
        removeItem(index, fails) /\ UNCHANGED <<checkoutVars, addressVars, pageVars>>

UpdateQuantityCall ==
    \E index \in IndexArgs, quantity \in QtyArgs, fails \in BOOLEAN :
        updateQuantity(index, quantity, fails) /\ UNCHANGED <<checkoutVars, addressVars, pageVars>>

ClearCall == \E fails \in BOOLEAN : clear(fails) /\ UNCHANGED <<checkoutVars, addressVars, pageVars>>

Next == AddItemCall \/ RemoveItemCall \/ UpdateQuantityCall \/ ClearCall

Spec == Init /\ [][Next]_vars

-----------------------------------------------------------------------------
(* The checkout flow, interleaved with the cart operations the page's       *)
(* controls call: addItem(product, 1, size) from the product modal,         *)
(* removeItem(index) from the cart modal.                                   *)

\* the (product id, size) pair added to the cart while a checkout runs; the
\* cart may hold a second line item from the blob the page loaded
CheckoutKeys == { <<4, NullSize>> }

InitCheckout ==
    /\ CartInit /\ CheckoutInit /\ AddressInit /\ PageInit
    /\ variant \in {"paypal", "simulated"}
    /\ LoadInit

AddToCartClick ==
    \E key \in CheckoutKeys, fails \in BOOLEAN :
        addItem(ProductOf(key[1]), 1, key[2], fails) /\ UNCHANGED <<checkoutVars, addressVars, pageVars>>

RemoveClick ==
    \E index \in 0 .. 1, fails \in BOOLEAN :
        /\ index < Len(items)
        /\ removeItem(index, fails)
        /\ UNCHANGED <<checkoutVars, addressVars, pageVars>>

CheckoutClick == checkout /\ UNCHANGED <<addressVars, pageVars>>

DependenciesLoaded == dependenciesLoaded /\ UNCHANGED <<addressVars, pageVars>>

CloseClick == closeOverlay /\ UNCHANGED <<addressVars, pageVars>>

PayPalSubmit ==
    \E email \in Emails, fails \in BOOLEAN :
        processPayPalCheckout(email, fails) /\ UNCHANGED <<addressVars, pageVars>>

PayPalOrderAccepted ==
    \E fails \in BOOLEAN : paypalOrderAccepted(fails) /\ UNCHANGED <<addressVars, pageVars>>

PayPalOrderRaised == paypalOrderRaised /\ UNCHANGED <<addressVars, pageVars>>

SimulatedSubmit == processPayment /\ UNCHANGED <<addressVars, pageVars>>

PaymentDelayOver ==
    \E email \in Emails, fails \in BOOLEAN :
        paymentDelayOver(email, fails) /\ UNCHANGED <<addressVars, pageVars>>

SimulatedOrderAnswered ==
    \E accepted \in BOOLEAN, fails \in BOOLEAN :
        simulatedOrderAnswered(accepted, fails) /\ UNCHANGED <<addressVars, pageVars>>

NextCheckout ==
    \/ AddToCartClick
    \/ RemoveClick
    \/ CheckoutClick
    \/ DependenciesLoaded
    \/ CloseClick
    \/ PayPalSubmit
    \/ PayPalOrderAccepted
    \/ PayPalOrderRaised
    \/ SimulatedSubmit
    \/ PaymentDelayOver
    \/ SimulatedOrderAnswered

SpecCheckout == InitCheckout /\ [][NextCheckout]_vars

-----------------------------------------------------------------------------
(* The address search alone. *)

InitAddress == Init

Keystroke == \E query \in Queries : onInput(query) /\ UNCHANGED <<cartVars, checkoutVars, pageVars>>

TimerFires == onTimeout /\ UNCHANGED <<cartVars, checkoutVars, pageVars>>

FetchReturns ==
    \E req \in 1 .. MaxSearches, count \in 0 .. MaxResults :
        onFetchReturned(req, count) /\ UNCHANGED <<cartVars, checkoutVars, pageVars>>

FetchFails ==
    \E req \in 1 .. MaxSearches : onFetchFailed(req) /\ UNCHANGED <<cartVars, checkoutVars, pageVars>>

ClickAway == onClickAway /\ UNCHANGED <<cartVars, checkoutVars, pageVars>>

NextAddress == Keystroke \/ TimerFires \/ FetchReturns \/ FetchFails \/ ClickAway

SpecAddress == InitAddress /\ [][NextAddress]_vars

-----------------------------------------------------------------------------
(* The checkout form and its fields, in both variants. *)

InitForm ==
    /\ CartInit /\ CheckoutInit /\ AddressInit /\ FormInit /\ ProbeInit /\ CatalogIdle
    /\ validates \in BOOLEAN
    /\ variant \in {"paypal", "simulated"}
    /\ LoadInit

\* a handler that leaves the cart alone
CartUntouched == UNCHANGED <<items, storage, badge, quotaErrors, addRun>>

\* a handler that leaves the checkout overlay alone
OverlayUntouched == UNCHANGED checkoutVars

FormCheckoutClick ==
    /\ checkout
    /\ IF attached' THEN NewForm ELSE UNCHANGED formVars
    /\ UNCHANGED <<addressVars, cartModal, itemsKind, probeVars, catalogVars>>

FormDependenciesLoaded ==
    dependenciesLoaded /\ NewForm /\ UNCHANGED <<addressVars, cartModal, itemsKind, probeVars, catalogVars>>

TypeEmail ==
    \E email \in Emails :
        /\ typeEmail(email)
        /\ lastOp' = "typeEmail" /\ threw' = FALSE
        /\ CartUntouched /\ OverlayUntouched /\ UNCHANGED <<addressVars, cartModal, itemsKind, probeVars, catalogVars>>

TypeCity ==
    \E city \in Cities :
        /\ typeCity(city)
        /\ lastOp' = "typeCity" /\ threw' = FALSE
        /\ CartUntouched /\ OverlayUntouched /\ UNCHANGED <<addressVars, cartModal, itemsKind, probeVars, catalogVars>>

ProfileArrives ==
    \E profile \in Profiles :
        /\ profileArrived(profile)
        /\ lastOp' = "profile" /\ threw' = FALSE
        /\ CartUntouched /\ OverlayUntouched /\ UNCHANGED <<addressVars, cartModal, itemsKind, probeVars, catalogVars>>

ProfileFails ==
    /\ profileFailed
    /\ lastOp' = "profileFailed" /\ threw' = FALSE
    /\ CartUntouched /\ OverlayUntouched /\ UNCHANGED <<addressVars, cartModal, itemsKind, probeVars, catalogVars>>

FormPayPalSubmit ==
    \E fails \in BOOLEAN :
        /\ FormSubmittable
        /\ processPayPalCheckout(emailField, fails)
        /\ UNCHANGED <<addressVars, pageVars>>

FormSimulatedSubmit ==
    /\ FormSubmittable
    /\ processPayment
    /\ UNCHANGED <<addressVars, pageVars>>

\* const email = overlay.querySelector('#checkout-email').value, after the delay
FormPaymentDelayOver ==
    \E fails \in BOOLEAN :
        paymentDelayOver(emailField, fails) /\ UNCHANGED <<addressVars, pageVars>>

NextForm ==
    \/ FormCheckoutClick
    \/ FormDependenciesLoaded
    \/ TypeEmail
    \/ TypeCity
    \/ ProfileArrives
    \/ ProfileFails
    \/ FormPayPalSubmit
    \/ FormSimulatedSubmit
    \/ FormPaymentDelayOver
    \/ CloseClick
    \/ PayPalOrderAccepted
    \/ PayPalOrderRaised
    \/ SimulatedOrderAnswered

SpecForm == InitForm /\ [][NextForm]_vars

-----------------------------------------------------------------------------
(* The cart ledger of a page loaded over any stored string, in both copies  *)
(* of CartManager, with the operations the page's controls call.            *)

\* the strings a page load may find under 'threadheaven_cart': none, a cart an
\* earlier page wrote, the empty string, a truncated cart, and JSON texts that
\* are not a sequence of line items: null, a number, a single line item
HydrateBlobs ==
    { NoBlob,
      JSONstringify(<<LineItem(ProductOf(2), 1, "M")>>),
      <<>>,
      <<Punct("[")>>,
      <<Punct("["), Punct("{")>>,
      <<NullTok>>,
      <<NumTok(5)>>,
      StringifyItem(LineItem(ProductOf(2), 1, "M")) }

InitHydrate ==
    /\ storage \in HydrateBlobs
    /\ items = loadFromStorage(storage)
    /\ badge = getItemCount(items)
    /\ quotaErrors = 0
    /\ lastOp = "constructor"
    /\ threw = FALSE
    /\ addRun = BrokenRun
    /\ CheckoutInit /\ AddressInit /\ PageInit
    /\ variant \in {"paypal", "simulated"}
    /\ LoadInit

\* this.items.findIndex, .splice and .reduce are not functions, this.items[index]
\* is undefined or a character: the handler throws a TypeError at its first line
NotAnArray(op) ==
    /\ itemsKind # "array"
    /\ lastOp' = op
    /\ threw' = TRUE
    /\ UNCHANGED <<items, storage, badge, quotaErrors, addRun, itemsKind>>

LoadedAddItem ==
    \E key \in CartKeys :
        /\ IF itemsKind = "array"
           THEN addItem(ProductOf(key[1]), 1, key[2], FALSE) /\ UNCHANGED itemsKind
           ELSE NotAnArray("addItem")
        /\ UNCHANGED <<checkoutVars, addressVars, cartModal, formVars, probeVars, catalogVars>>

LoadedRemoveItem ==
    \E index \in 0 .. 1 :
        /\ IF itemsKind = "array"
           THEN removeItem(index, FALSE) /\ UNCHANGED itemsKind
           ELSE NotAnArray("removeItem")
        /\ UNCHANGED <<checkoutVars, addressVars, cartModal, formVars, probeVars, catalogVars>>

LoadedUpdateQuantity ==
    \E index \in 0 .. 1, quantity \in 0 .. MaxQty :
        /\ IF itemsKind = "array"
           THEN updateQuantity(index, quantity, FALSE) /\ UNCHANGED itemsKind
           ELSE NotAnArray("updateQuantity")
        /\ UNCHANGED <<checkoutVars, addressVars, cartModal, formVars, probeVars, catalogVars>>

\* clear() assigns a new array, whatever this.items was
LoadedClear ==
    /\ clear(FALSE)
    /\ itemsKind' = "array"
    /\ UNCHANGED <<checkoutVars, addressVars, cartModal, formVars, probeVars, catalogVars>>

NextHydrate == LoadedAddItem \/ LoadedRemoveItem \/ LoadedUpdateQuantity \/ LoadedClear

SpecHydrate == InitHydrate /\ [][NextHydrate]_vars

-----------------------------------------------------------------------------
(* The cart ledger with its two queries, getTotal and getItemCount, and the *)
(* record of the last updateQuantity call.                                  *)

\* the (product id, size) pairs of this specification: two products
LedgerKeys == { <<4, NullSize>>, <<2, "M">> }

\* an updateQuantity call the record keeps: a valid index, a quantity <= 0
Recorded(index, quantity) == index >= 0 /\ index < Len(items) /\ quantity <= 0

LedgerAddItem ==
    \E key \in LedgerKeys, quantity \in QtyArgs, fails \in BOOLEAN :
        /\ addItem(ProductOf(key[1]), quantity, key[2], fails)
        /\ answer' = NoAnswer /\ lastCall' = NoCall
        /\ UNCHANGED <<checkoutVars, addressVars, cartModal, formVars, itemsKind, catalogVars>>

LedgerRemoveItem ==
    \E index \in IndexArgs, fails \in BOOLEAN :
        /\ removeItem(index, fails)
        /\ answer' = NoAnswer /\ lastCall' = NoCall
        /\ UNCHANGED <<checkoutVars, addressVars, cartModal, formVars, itemsKind, catalogVars>>

LedgerUpdateQuantity ==
    \E index \in IndexArgs, quantity \in QtyArgs, fails \in BOOLEAN :
        /\ updateQuantity(index, quantity, fails)
        /\ answer' = NoAnswer
        /\ lastCall' = IF Recorded(index, quantity)
                       THEN [op |-> "updateQuantity", index |-> index, quantity |-> quantity,
                             before |-> items, blob |-> storage]
                       ELSE NoCall
        /\ UNCHANGED <<checkoutVars, addressVars, cartModal, formVars, itemsKind, catalogVars>>

LedgerClear ==
    \E fails \in BOOLEAN :
        /\ clear(fails)
        /\ answer' = NoAnswer /\ lastCall' = NoCall
        /\ UNCHANGED <<checkoutVars, addressVars, cartModal, formVars, itemsKind, catalogVars>>

\* getTotal(): reduce reads the items and assigns nothing
GetTotalCall ==
    /\ answer' = [op |-> "getTotal", value |-> getTotal(items)]
    /\ lastOp' = "getTotal"
    /\ threw' = FALSE
    /\ lastCall' = NoCall
    /\ UNCHANGED <<items, storage, badge, quotaErrors, addRun>>
    /\ UNCHANGED <<checkoutVars, addressVars, cartModal, formVars, itemsKind, catalogVars>>

\* getItemCount(): reduce reads the items and assigns nothing
GetItemCountCall ==
    /\ answer' = [op |-> "getItemCount", value |-> getItemCount(items)]
    /\ lastOp' = "getItemCount"
    /\ threw' = FALSE
    /\ lastCall' = NoCall
    /\ UNCHANGED <<items, storage, badge, quotaErrors, addRun>>
    /\ UNCHANGED <<checkoutVars, addressVars, cartModal, formVars, itemsKind, catalogVars>>

NextLedger ==
    \/ LedgerAddItem
    \/ LedgerRemoveItem
    \/ LedgerUpdateQuantity
    \/ LedgerClear
    \/ GetTotalCall
    \/ GetItemCountCall

SpecLedger == Init /\ [][NextLedger]_vars

-----------------------------------------------------------------------------
(* The cart modal: the cart button renders it, its buttons call the ledger, *)
(* and the product modal adds to the cart while it is closed.               *)

CartModalRest == UNCHANGED <<checkoutVars, addressVars, formVars, itemsKind, answer, catalogVars>>

\* the .cart-btn listener: cart.renderCartModal()
CartButtonClick ==
    /\ cartModal' = RenderCartModal(items)
    /\ lastOp' = "renderCartModal"
    /\ threw' = FALSE
    /\ UNCHANGED <<items, storage, badge, quotaErrors, addRun, lastCall>>
    /\ CartModalRest

\* the close button of the cart modal
CartModalClose ==
    /\ cartModal.open
    /\ cartModal' = NoCartModal
    /\ lastOp' = "closeCartModal"
    /\ threw' = FALSE
    /\ UNCHANGED <<items, storage, badge, quotaErrors, addRun, lastCall>>
    /\ CartModalRest

PlusClick ==
    \E row \in 1 .. 2, fails \in BOOLEAN : plusClick(row, fails) /\ CartModalRest

MinusClick ==
    \E row \in 1 .. 2, fails \in BOOLEAN : minusClick(row, fails) /\ CartModalRest

TrashClick ==
    \E row \in 1 .. 2, fails \in BOOLEAN : trashClick(row, fails) /\ CartModalRest

\* the add-to-cart button of a product modal, with the cart modal closed
ProductAdd ==
    \E key \in CheckoutKeys :
        /\ ~cartModal.open
        /\ addItem(ProductOf(key[1]), 1, key[2], FALSE)
        /\ UNCHANGED <<cartModal, lastCall>>
        /\ CartModalRest

NextCartModal ==
    \/ CartButtonClick
    \/ CartModalClose
    \/ PlusClick
    \/ MinusClick
    \/ TrashClick
    \/ ProductAdd

SpecCartModal == Init /\ [][NextCartModal]_vars

-----------------------------------------------------------------------------
(* The catalog alone. *)

InitCatalog ==
    /\ CartInit /\ CheckoutInit /\ AddressInit /\ FormInit /\ ProbeInit /\ CatalogInit
    /\ validates = TRUE
    /\ variant = "paypal"
    /\ LoadInit

CatalogRest == UNCHANGED <<cartVars, checkoutVars, addressVars, cartModal, formVars, itemsKind, probeVars>>

AppInit == \E clientThrows \in BOOLEAN : appInit(clientThrows) /\ CatalogRest

LoaderTimeout == loaderTimeout /\ CatalogRest

ProductsAnswered ==
    \E outcome \in RemoteOutcomes, fast \in BOOLEAN :
        productsAnswered(outcome, fast) /\ CatalogRest

LoaderFaded == loaderFaded /\ CatalogRest

ProductClick == \E card \in 1 .. 6 : showProductModal(card) /\ CatalogRest

SizeClick == \E size \in {"M"} : selectSize(size) /\ CatalogRest

ModalClose == closeProductModal /\ CatalogRest

\* the add-to-cart button of the product modal
ModalAddToCart ==
    /\ modal # 0
    /\ addItem(ModalProduct, 1, selectedSize, FALSE)
    /\ closeProductModal
    /\ UNCHANGED <<checkoutVars, addressVars, cartModal, formVars, itemsKind, probeVars>>

NextCatalog ==
    \/ AppInit
    \/ LoaderTimeout
    \/ ProductsAnswered
    \/ LoaderFaded
    \/ ProductClick
    \/ SizeClick
    \/ ModalClose
    \/ ModalAddToCart

SpecCatalog == InitCatalog /\ [][NextCatalog]_vars

-----------------------------------------------------------------------------
(* The claims about the cart ledger, checked under Spec. *)

\* C1: after any sequence of addItem calls on an initially empty cart that all
\* carry the same (product id, size) pair, the cart holds exactly one line item,
\* for that pair, and its quantity is the sum of the requested quantities.
C1_SameKeyAddsMerge ==
    addRun.st = "same" =>
        /\ Len(items) = 1
        /\ items[1].id = addRun.id
        /\ items[1].size = addRun.size
        /\ items[1].quantity = addRun.sum

\* C1's case: at least two addItem calls with one pair have been summed.
C1_Witness ==
    /\ addRun.st = "same"
    /\ addRun.calls = 2
    /\ lastOp = "addItem"
    /\ Len(items) = 1
    /\ items[1].quantity = 2

\* C2 as stated: every line item of the cart has quantity >= 1 in every
\* reachable state, whatever the quantity arguments of the calls were.
C2_QuantityAtLeastOne == \A k \in 1 .. Len(items) : items[k].quantity >= 1

\* C3 as stated: whenever another handler can run, the persisted blob
\* deserializes to exactly the in-memory sequence of line items.
C3_BlobMatchesMemory == loadFromStorage(storage) = items

\* C4 as stated: a cart operation that ends in an error leaves the in-memory
\* cart and the persisted blob exactly as they were before it.
C4_ErrorLeavesCartUnchanged ==
    [][threw' => (items' = items /\ storage' = storage)]_vars

\* C16: an addItem for a (product, size) pair the cart has no line for -- the
\* cart may hold the same product with another size, null being a size of its
\* own -- appends a line for that pair with the requested quantity and leaves
\* every line the cart held as it was.
C16_SizesAreDistinctLines ==
    [][\A key \in CartKeys, quantity \in QtyArgs, fails \in BOOLEAN :
          (/\ addItem(ProductOf(key[1]), quantity, key[2], fails)
           /\ \A k \in 1 .. Len(items) : ~(items[k].id = key[1] /\ items[k].size = key[2]))
          => /\ Len(items') = Len(items) + 1
             /\ SubSeq(items', 1, Len(items)) = items
             /\ items'[Len(items')].id = key[1]
             /\ items'[Len(items')].size = key[2]
             /\ items'[Len(items')].quantity = quantity]_vars

\* C16's case: one product added with size M, quantity 2, and with no size,
\* quantity 1: two lines.
C16_Witness ==
    /\ lastOp = "addItem"
    /\ Len(items) = 2
    /\ items[1].id = items[2].id
    /\ items[1].size = "M" /\ items[1].quantity = 2
    /\ items[2].size = NullSize /\ items[2].quantity = 1

\* C14: after every cart operation that wrote the blob, a cart constructed
\* from that blob holds the identical sequence of line items: same order, same
\* values of every field, a null size included.
C14_PersistReloadRoundTrip ==
    (lastOp # "constructor" /\ ~threw) =>
        /\ LoadedKind(storage, variant) = "array"
        /\ loadFromStorage(storage) = items

\* C14's case: an operation has written a cart of two line items, one of them
\* with a null size, and the blob reads back as that cart.
C14_Witness ==
    /\ lastOp = "addItem"
    /\ ~threw
    /\ Len(items) = 2
    /\ items[2].size = NullSize
    /\ items[1].size = "M"
    /\ loadFromStorage(storage) = items

\* C27: from an empty cart, or one hydrated from a blob this code wrote, after
\* any sequence of addItem, removeItem, updateQuantity and clear calls no two
\* line items of the cart share the same (product id, size) pair.
C27_NoDuplicatePairs ==
    \A j \in 1 .. Len(items), k \in 1 .. Len(items) :
        (items[j].id = items[k].id /\ items[j].size = items[k].size) => j = k

\* C27's case: the cart was hydrated with one line, a second pair was added
\* twice and the first pair once more, and the cart holds two lines.
C27_Witness ==
    /\ lastOp = "addItem"
    /\ Len(items) = 2
    /\ items[1].id = 2 /\ items[1].size = "M" /\ items[1].quantity = 2
    /\ items[2].id = 4 /\ items[2].quantity = 2

\* C30 as stated: for an index outside 0 .. length-1, removeItem(index) and
\* updateQuantity(index, q), for any q, leave the sequence of line items as it
\* was.
C30_OutOfRangeIndexIsNoOp ==
    [][\A index \in IndexArgs, quantity \in QtyArgs, fails \in BOOLEAN :
          (/\ index < 0 \/ index >= Len(items)
           /\ removeItem(index, fails) \/ updateQuantity(index, quantity, fails))
          => items' = items]_vars

-----------------------------------------------------------------------------
(* The claims about the checkout flow, checked under SpecCheckout. *)

\* what an order in flight says about one line: size, quantity and amount
OrderLine(it) ==
    [size |-> IF it.size = NullSize THEN "" ELSE it.size,
     quantity |-> it.quantity, amount |-> it.price * it.quantity]

\* the same three values of a rendered summary line
ShownLine(line) == [size |-> line.size, quantity |-> line.quantity, amount |-> line.amount]

OrderMatchesSummary(order) ==
    /\ order.amount = summary.total
    /\ Len(order.items) = Len(summary.lines)
    /\ \A k \in 1 .. Len(order.items) : OrderLine(order.items[k]) = ShownLine(summary.lines[k])

\* C5 as stated: the Order passed to the Remote Order Sink carries the items
\* and the total of the summary that was shown, whatever cart mutations happened
\* between showing the summary and the submission.
C5_OrderIsTheSummarySnapshot ==
    \A k \in 1 .. Len(inflight) : OrderMatchesSummary(inflight[k])

\* C6: while a submission is under way (the form is shown and its submit
\* control is disabled) exactly one order construction is pending or in flight
\* at the Remote Order Sink, and otherwise none is: a second submit of the same
\* form cannot start another one.
C6_OneSubmissionPerForm ==
    /\ timers + Len(inflight) <= 1
    /\ (content = "form" /\ btnDisabled) <=> (timers + Len(inflight) = 1)

\* C6's case: a submission is in flight at the sink and the form is still shown.
C6_Witness ==
    /\ attached
    /\ content = "form"
    /\ btnDisabled
    /\ Len(inflight) = 1
    /\ lastOp = "submit"

\* C8: checkout invoked on an empty cart changes nothing: no modal is shown or
\* being loaded, no PendingOrder is written, no Order is constructed.
C8_EmptyCartStaysIdle ==
    [][(lastOp' = "checkout" /\ items = <<>>) =>
          /\ CheckoutState' = "Idle"
          /\ UNCHANGED <<loading, content, attached, btnDisabled, summary,
                         pendingOrder, timers, inflight, items, storage>>]_vars

\* C8's case: checkout has just been invoked on an empty cart.
C8_Witness ==
    /\ lastOp = "checkout"
    /\ items = <<>>
    /\ CheckoutState = "Idle"
    /\ ~pendingOrder.written

\* C9 as stated: when the Remote Order Sink raises, the flow is back at the
\* form with the submit control enabled, and the step changes neither the
\* cart's line items nor the persisted blob.
C9_SinkFailureKeepsCart ==
    [][lastOp' = "sinkRaised" =>
          /\ content' = "form"
          /\ btnDisabled' = FALSE
          /\ items' = items
          /\ storage' = storage]_vars

\* C9 amended: the same, in the hosted-redirect (paypal) variant.
C9_PayPalSinkFailureKeepsCart ==
    [][(lastOp' = "sinkRaised" /\ variant = "paypal") =>
          /\ content' = "form"
          /\ btnDisabled' = FALSE
          /\ items' = items
          /\ storage' = storage]_vars

\* C9's case: the sink has just raised in the paypal variant, on a cart that
\* holds line items.
C9_Witness ==
    /\ variant = "paypal"
    /\ lastOp = "sinkRaised"
    /\ items # <<>>
    /\ content = "form"
    /\ ~btnDisabled

\* the steps of the checkout code, as lastOp names them
CheckoutOps ==
    {"checkout", "showCheckoutModal", "submit", "paymentDelayOver", "sinkAccepted",
     "sinkRaised"}

\* C10 as stated: checkout clears the cart only after the Remote Order Sink has
\* accepted the Order, and when Success is reached the in-memory cart is empty
\* and the persisted blob is the empty sequence.
C10_ClearedOnlyAfterAcceptance ==
    [][/\ (lastOp' \in CheckoutOps /\ items' # items) => lastOp' = "sinkAccepted"
       /\ (content' = "success" /\ content # "success") =>
             /\ lastOp' = "sinkAccepted"
             /\ items' = <<>>
             /\ storage' = JSONstringify(<<>>)]_vars

\* C10 amended: the same, in the hosted-redirect (paypal) variant.
C10_PayPalClearedOnlyAfterAcceptance ==
    [][variant = "paypal" =>
          /\ (lastOp' \in CheckoutOps /\ items' # items) => lastOp' = "sinkAccepted"
          /\ (content' = "success" /\ content # "success") =>
                /\ lastOp' = "sinkAccepted"
                /\ items' = <<>>
                /\ storage' = JSONstringify(<<>>)]_vars

\* C10's case: the paypal variant has just reached Success.
C10_Witness ==
    /\ variant = "paypal"
    /\ lastOp = "sinkAccepted"
    /\ content = "success"
    /\ items = <<>>
    /\ pendingOrder.items # <<>>

\* C20: in the simulated variant the answer of the Remote Order Sink, raise
\* or acceptance, leads to the success screen with the in-memory cart emptied;
\* in the paypal variant a raise leads back to the form with the submit
\* control enabled and the cart and the blob as they were.
C20_SinkFailureByVariant ==
    [][/\ (variant = "simulated" /\ lastOp' \in {"sinkRaised", "sinkAccepted"}) =>
             (content' = "success" /\ items' = <<>>)
       /\ (variant = "paypal" /\ lastOp' = "sinkRaised") =>
             /\ content' = "form" /\ btnDisabled' = FALSE
             /\ items' = items /\ storage' = storage]_vars

\* C20's case: the sink has raised in the simulated variant on an order with
\* line items, and the success screen is shown over an empty cart.
C20_Witness ==
    /\ variant = "simulated"
    /\ lastOp = "sinkRaised"
    /\ content = "success"
    /\ items = <<>>
    /\ storage = JSONstringify(<<>>)
    /\ summary.lines # <<>>

-----------------------------------------------------------------------------
(* The claims about the address search, checked under SpecAddress. *)

\* C7 as stated: once a newer request has returned, the results of a
\* superseded (older) request are not shown in the suggestion list.
C7_NoStaleSuggestions ==
    container.visible => \A req \in returned : req <= container.req

-----------------------------------------------------------------------------
(* The claims about the checkout form, checked under SpecForm. *)

\* C11 as stated: a submission whose email is empty or has no '@' never
\* enters Submitting: the submit step leaves the submit control enabled, writes
\* no PendingOrder, starts no order and leaves the cart alone, and no order is
\* ever handed to the Remote Order Sink with such an email.
C11_BadEmailNeverSubmits ==
    [][/\ (lastOp' = "submit" /\ EmailRejected(emailField)) =>
             /\ btnDisabled' = FALSE
             /\ UNCHANGED <<pendingOrder, timers, inflight, items, storage>>
       /\ Len(inflight') > Len(inflight) =>
             ~EmailRejected(inflight'[Len(inflight')].customer_email)]_vars

\* C12 as stated: the profile pre-fill leaves a shipping field the user has
\* already typed into with the user's value.
C12_PrefillKeepsEditedField ==
    [][(lastOp' = "profile" /\ cityEdited) => cityField' = cityField]_vars

-----------------------------------------------------------------------------
(* The claims about loading the cart, checked under SpecHydrate. *)

\* a stored string that is the serialization of a sequence of line items
WellFormed(saved) ==
    /\ ~Falsy(saved)
    /\ JSONparse(saved).ok
    /\ JSONparse(saved).kind = "array"
    /\ JSONstringify(JSONparse(saved).val) = saved

\* C13 as stated: a cart constructed over a stored string that is not a
\* serialized sequence of line items is the empty sequence, and no cart
\* operation on it fails for want of a sequence.
C13_MalformedHydratesEmpty ==
    /\ (lastOp = "constructor" /\ storage # NoBlob /\ ~WellFormed(storage)) =>
           (itemsKind = "array" /\ items = <<>>)
    /\ itemsKind = "array"

-----------------------------------------------------------------------------
(* The claims about the ledger's queries and updateQuantity, checked under  *)
(* SpecLedger.                                                              *)

\* C15: for a valid index i and a quantity q <= 0, updateQuantity(i, q) leaves
\* the cart and the blob as removeItem(i) leaves them from the same cart: the
\* line at i spliced out, and the blob the serialization of the result (or,
\* when the store refused the write, the blob as it was).
C15_UpdateToZeroIsRemove ==
    lastCall.op = "updateQuantity" =>
        /\ items = Splice1(lastCall.before, lastCall.index)
        /\ storage = IF threw THEN lastCall.blob
                     ELSE JSONstringify(Splice1(lastCall.before, lastCall.index))

\* C15's case: updateQuantity(0, 0) on a cart of two lines has left the second.
C15_Witness ==
    /\ lastCall.op = "updateQuantity"
    /\ lastCall.quantity = 0
    /\ lastCall.index = 0
    /\ Len(lastCall.before) = 2
    /\ ~threw
    /\ items = <<lastCall.before[2]>>

\* the sum of price * quantity over the lines, from the last line to the first
RECURSIVE SumOfLines(_, _)
SumOfLines(its, k) ==
    IF k = 0 THEN 0 ELSE SumOfLines(its, k - 1) + its[k].price * its[k].quantity

\* the sum of the quantities of the lines, from the last line to the first
RECURSIVE SumOfQuantities(_, _)
SumOfQuantities(its, k) ==
    IF k = 0 THEN 0 ELSE SumOfQuantities(its, k - 1) + its[k].quantity

\* C17: getTotal() returns the sum over the lines of price * quantity, and the
\* call changes neither the cart nor the blob.
C17_TotalIsSumOfLines ==
    [][lastOp' = "getTotal" =>
          /\ answer'.op = "getTotal"
          /\ answer'.value = SumOfLines(items, Len(items))
          /\ items' = items
          /\ storage' = storage]_vars

\* C17's case: getTotal() has returned 230 on a cart of 2 at 55 and 1 at 120.
C17_Witness ==
    /\ answer = [op |-> "getTotal", value |-> 230]
    /\ Len(items) = 2
    /\ items[1].price = 55 /\ items[1].quantity = 2
    /\ items[2].price = 120 /\ items[2].quantity = 1

\* C18: getItemCount() returns the sum of the quantities of the lines, and the
\* call changes neither the cart nor the blob.
C18_CountIsSumOfQuantities ==
    [][lastOp' = "getItemCount" =>
          /\ answer'.op = "getItemCount"
          /\ answer'.value = SumOfQuantities(items, Len(items))
          /\ items' = items
          /\ storage' = storage]_vars

\* C18's case: getItemCount() has returned 3 on a cart of 2 of one product and
\* 1 of another.
C18_Witness ==
    /\ answer = [op |-> "getItemCount", value |-> 3]
    /\ Len(items) = 2
    /\ items[1].id = 4 /\ items[1].quantity = 2
    /\ items[2].id = 2 /\ items[2].quantity = 1

-----------------------------------------------------------------------------
(* The claims about the catalog, checked under SpecCatalog. *)

\* loading the catalog has failed: no db on the page, no SDK, no client
\* (createClient threw), an error in the answer, or an answer without rows
LoadingFailed ==
    \/ ~dbDefined
    \/ ~sdkLoaded
    \/ dbClient = "null"
    \/ loadFailed \in {"remote error", "no rows"}

\* C19: whenever loading the catalog has failed, init() ends with the product
\* list equal to the built-in catalog, six entries, and with the grid rendered
\* from it, one card per entry in order.
C19_FailureFallsBackToBuiltIn ==
    (appPc = "done" /\ LoadingFailed) =>
        /\ products = getStaticProducts
        /\ Len(products) = 6
        /\ grid = [kind |-> "products", ids |-> <<1, 2, 3, 4, 5, 6>>]

\* C19's case: the query was sent and answered with an error, and init() has
\* ended on the built-in catalog.
C19_Witness ==
    /\ appPc = "done"
    /\ dbDefined /\ sdkLoaded /\ dbClient = "client"
    /\ loadFailed = "remote error"
    /\ Len(products) = 6
    /\ grid.kind = "products" /\ Len(grid.ids) = 6

-----------------------------------------------------------------------------
(* The claims about the pending order and the orders sent, checked under    *)
(* SpecCheckout.                                                            *)

\* C21: in the hosted-redirect (paypal) variant, a submission that hands an
\* Order to the Remote Order Sink has written the PendingOrder first, with the
\* same customer email, the same items and the same total as that Order; a
\* submission whose PendingOrder write is refused sends no Order.
C21_PendingOrderBeforeSend ==
    [][(variant = "paypal" /\ lastOp' = "submit") =>
          /\ Len(inflight') > Len(inflight) =>
                /\ pendingOrder'.written
                /\ pendingOrder'.email = inflight'[Len(inflight')].customer_email
                /\ pendingOrder'.items = inflight'[Len(inflight')].items
                /\ pendingOrder'.total = inflight'[Len(inflight')].amount
          /\ quotaErrors' > quotaErrors => UNCHANGED <<pendingOrder, inflight>>]_vars

\* C21's case: a submission over a cart of two lines has just written the
\* PendingOrder and handed the Order to the sink.
C21_Witness ==
    /\ variant = "paypal"
    /\ lastOp = "submit"
    /\ Len(inflight) = 1
    /\ Len(inflight[1].items) = 2
    /\ pendingOrder.written
    /\ pendingOrder.items = inflight[1].items
    /\ pendingOrder.total = 175

\* C23: nothing is retried automatically: in every reachable state the number
\* of createOrder calls made so far is at most the number of submit events
\* that passed validation, so every call has a submission of its own.
C23_NoAutomaticRetry == sinkCalls <= submissions

\* C23's case: the sink has raised on the one order of the one submission, and
\* no second call has been made.
C23_Witness ==
    /\ lastOp = "sinkRaised"
    /\ submissions = 1
    /\ sinkCalls = 1
    /\ inflight = <<>>
    /\ timers = 0

\* C28: every Order handed to the Remote Order Sink, in either variant and
\* whatever cart mutations surround the submission, has an amount equal to the
\* sum of price * quantity over the items that same Order carries.
C28_OrderAmountIsSumOfItsItems ==
    \A k \in 1 .. Len(inflight) :
        inflight[k].amount = SumOfLines(inflight[k].items, Len(inflight[k].items))

\* C28's case: the simulated variant has sent an order of two lines built
\* after the payment delay, the cart having changed since the summary was
\* shown and again since the order was sent.
C28_Witness ==
    /\ variant = "simulated"
    /\ Len(inflight) = 1
    /\ Len(inflight[1].items) = 2
    /\ inflight[1].amount = 175
    /\ summary.total # 175
    /\ Len(items) = 1

\* a line item of the cart is, as it stands, a line of this order
InOrder(it, order) ==
    \E j \in 1 .. Len(order.items) :
        IF variant = "paypal"
        THEN order.items[j] = it
        ELSE /\ order.items[j].product_id = it.id
             /\ order.items[j].size = it.size
             /\ order.items[j].quantity = it.quantity
             /\ order.items[j].price = it.price

\* C24 as stated: when the sink has accepted the Order and checkout reaches
\* Success, every line item the cart clear removes was a line of that Order: a
\* line added or changed while the submission was in flight is not discarded.
C24_ClearDiscardsOnlyOrderedLines ==
    [][(lastOp' = "sinkAccepted" /\ content' = "success" /\ items' = <<>>) =>
          \A k \in 1 .. Len(items) : InOrder(items[k], inflight[1])]_vars

-----------------------------------------------------------------------------
(* The claims about the cart modal, checked under SpecCartModal. *)

\* the 0-based position, in the cart the last click found, of the line item
\* the clicked row displays
ClickedLine == FindIndex(lastCall.before, lastCall.shown.id, lastCall.shown.size)

\* C25 as stated: a click on the plus or minus control of a rendered cart
\* modal acts on the line item it is displayed beside, and changes that
\* item's stored quantity by exactly +1 or -1 (a line that reaches 0 leaves
\* the cart); every other line is left as it was.
C25_ClicksActOnTheirLine ==
    (lastCall.op \in {"plus", "minus"} /\ ~threw) =>
        /\ ClickedLine > -1
        /\ LET k == ClickedLine + 1
               q == lastCall.before[k].quantity + (IF lastCall.op = "plus" THEN 1 ELSE -1)
           IN  items = IF q <= 0 THEN Splice1(lastCall.before, k - 1)
                       ELSE [lastCall.before EXCEPT ![k].quantity = q]

-----------------------------------------------------------------------------
(* The claims about the product cards, checked under SpecCatalog. *)

\* C26 as stated: for every card of the rendered catalog, remote or built-in,
\* showProductModal called with the id embedded in the card finds the product
\* the card was rendered from.
C26_EveryCardFindsItsProduct ==
    grid.kind = "products" =>
        \A card \in 1 .. Len(grid.ids) :
            /\ FindProduct(products, IdText(grid.ids[card])) # 0
            /\ products[FindProduct(products, IdText(grid.ids[card]))].id = grid.ids[card]

-----------------------------------------------------------------------------
(* The claims about the debounce of the address search, checked under       *)
(* SpecAddress.                                                             *)

C29_ShortTextHidesList == TooShort(inputText) => ~container.visible

====
